---- MODULE Spec2Model ----
(***************************************************************************)
(* Model of TOPPDereplicatorAdapter (src/utils/DereplicatorAdapter.cpp):   *)
(* one invocation of the tool, from main() creating the tool object,       *)
(* through main_ (option checks, executable lookup, temporary directory,   *)
(* argument list, external process, copy of the result file) to the        *)
(* destruction of the tool object.  The file system, the external process  *)
(* and the outcome of each I/O call are the environment.                   *)
(***************************************************************************)
EXTENDS Integers, Sequences, FiniteSets, TLC

\* ---------------------------------------------------------------- bounds
MaxLen == 2      \* longest file content, in bytes
MaxByte == 2     \* byte values are 1..MaxByte

\* ------------------------------------------------------------ vocabulary
Bytes == 1..MaxByte

RECURSIVE SeqsUpTo(_)
SeqsUpTo(n) ==
  IF n = 0 THEN {<<>>}
  ELSE LET shorter == SeqsUpTo(n - 1)
       IN shorter \cup {Append(s, b) : s \in {t \in shorter : Len(t) = n - 1}, b \in Bytes}

Contents == SeqsUpTo(MaxLen)             \* possible contents of a file
ABSENT == [exists |-> FALSE, data |-> <<>>]      \* no file at this path
File(c) == [exists |-> TRUE, data |-> c]         \* a file holding c
FileStates == {ABSENT} \cup {File(c) : c \in Contents}

\* TOPPBase::ExitCodes, the values main_ and runExternalProcess_ can return
EXECUTION_OK == "EXECUTION_OK"
ILLEGAL_PARAMETERS == "ILLEGAL_PARAMETERS"
MISSING_PARAMETERS == "MISSING_PARAMETERS"
EXTERNAL_PROGRAM_ERROR == "EXTERNAL_PROGRAM_ERROR"
UNKNOWN_ERROR == "UNKNOWN_ERROR"
ExitCodes == {EXECUTION_OK, ILLEGAL_PARAMETERS, MISSING_PARAMETERS,
              EXTERNAL_PROGRAM_ERROR, UNKNOWN_ERROR}
NONE == "none"                           \* main_ has not returned yet

\* option values the command line can carry ("" = option not given)
InValues == {"", "sample.mzML"}
DatabaseValues == {"", "/db/nrps"}
OutValues == {"", "results.tsv"}
ExecutableValues == {"", "dereplicator.py"}

\* names the framework can give the temporary directory (it ends with the
\* path separator: main_ appends the file name to it directly)
TempDirNames == {"/tmp/u1/", "/tmp/u2/"}
ResultFileName == "significant_matches.tsv"

\* the log lines of main_
MsgNoIn == "Fatal error: no input file (spectra) given"
MsgNoDatabase == "Fatal error: no database given"
MsgNoOut == "Fatal error: no output file (results) given"
MsgNoExecutable == "FATAL: Executable of Dereplicator could not be found."
MsgFine == "Everything is fine! Results are in "

\* the paths of the modelled file system
FsPaths == (OutValues \ {""}) \cup {d \o ResultFileName : d \in TempDirNames}

VARIABLES
  in, database, out,   \* the registered options "in", "database", "out"
  executableOpt,       \* the registered option "executable"
  exeOnDisk,           \* does a file exist at the executable path?
  fs,                  \* file system: path -> content or ABSENT
  fs0,                 \* the file system when the invocation started
  pc,                  \* position of the invocation
  executable,          \* local QString executable of main_
  tmp_dir,             \* local String tmp_dir of main_
  arguments,           \* local QStringList arguments of main_
  exit_code,           \* local exit_code of main_
  result,              \* value returned by main_
  log,                 \* lines written with writeLog_
  debug_level_,        \* TOPPBase::debug_level_
  dirsOnDisk,          \* temporary directories that exist on disk
  dirsCreated,         \* temporary directories this invocation created
  dirsAutoRemove,      \* directories registered for automatic removal
  spawned,             \* argument vectors handed to runExternalProcess_
  procResult,          \* content the external process wrote (or ABSENT)
  copyIO,              \* outcome of the I/O calls of the copy
  toolAlive            \* the tool object of main() still exists

vars == <<in, database, out, executableOpt, exeOnDisk, fs, fs0, pc, executable,
          tmp_dir, arguments, exit_code, result, log, debug_level_, dirsOnDisk,
          dirsCreated, dirsAutoRemove, spawned, procResult, copyIO, toolAlive>>

options == <<in, database, out, executableOpt, exeOnDisk, fs0>>
locals == <<executable, tmp_dir, arguments, exit_code>>
dirs == <<dirsOnDisk, dirsCreated, dirsAutoRemove>>

\* ------------------------------------------------------- pure operations

\* TOPPBase::getStringOption_: the value of a registered option
getStringOption_(name) ==
  CASE name = "in" -> in
    [] name = "database" -> database
    [] name = "out" -> out
    [] name = "executable" -> executableOpt

\* QFileInfo(executable).canonicalFilePath(): the absolute path without
\* symbolic links, or the empty string when the file does not exist
canonicalFilePath(path, exists) ==
  IF exists THEN "/usr/bin/" \o path ELSE ""

\* the path main_ reads the result from: tmp_dir + "significant_matches.tsv"
tmp_out(dir) == dir \o ResultFileName

\* std::remove(path): the file is gone if the call succeeds, else unchanged
RemoveFile(f, path, ok) ==
  IF ok /\ path \in DOMAIN f THEN [f EXCEPT ![path] = ABSENT] ELSE f

\* dst << src.rdbuf(): bytes go from src to dst one after the other until
\* src is exhausted or a write fails; n is the number of writes that succeed
RECURSIVE CopyBytes(_, _, _)
CopyBytes(src, dst, n) ==
  IF src = <<>> \/ n = 0 THEN dst
  ELSE CopyBytes(Tail(src), Append(dst, Head(src)), n - 1)

\* lines 204-206: open src for reading, open dst for writing (this creates
\* or truncates the file), then stream src into dst
CopyFile(f, from, to, io) ==
  LET srcOpen == io.srcOpen /\ from \in DOMAIN f /\ f[from].exists
      dstOpen == io.dstOpen /\ to \in DOMAIN f
  IN IF ~dstOpen THEN f
     ELSE IF ~srcOpen THEN [f EXCEPT ![to] = File(<<>>)]
     ELSE [f EXCEPT ![to] = File(CopyBytes(f[from].data, <<>>, io.written))]

\* outcomes of the I/O calls of lines 200-206
CopyIOs == [removeOk : BOOLEAN, srcOpen : BOOLEAN, dstOpen : BOOLEAN,
            written : 0..MaxLen]
NoIO == [removeOk |-> TRUE, srcOpen |-> TRUE, dstOpen |-> TRUE, written |-> MaxLen]

\* ------------------------------------------------------------------ Init
Init ==
  /\ in \in InValues
  /\ database \in DatabaseValues
  /\ out \in OutValues
  /\ executableOpt \in ExecutableValues
  /\ exeOnDisk \in BOOLEAN
  /\ fs \in [FsPaths -> FileStates]
  /\ \A d \in TempDirNames : fs[tmp_out(d)] = ABSENT
  /\ fs0 = fs
  /\ pc = "Start"
  /\ executable = ""
  /\ tmp_dir = ""
  /\ arguments = <<>>
  /\ exit_code = NONE
  /\ result = NONE
  /\ log = <<>>
  /\ debug_level_ = 0
  /\ dirsOnDisk = {}
  /\ dirsCreated = {}
  /\ dirsAutoRemove = {}
  /\ spawned = <<>>
  /\ procResult = ABSENT
  /\ copyIO = NoIO
  /\ toolAlive = TRUE

\* main_ returns code after writing msg to the log
Fail(msg, code) ==
  /\ log' = Append(log, msg)
  /\ result' = code
  /\ pc' = "Failed"

\* lines 135-143: read the three options, check "in"
CheckIn ==
  /\ pc = "Start"
  /\ IF getStringOption_("in") = ""
     THEN Fail(MsgNoIn, ILLEGAL_PARAMETERS)
     ELSE /\ pc' = "InChecked"
          /\ UNCHANGED <<log, result>>
  /\ UNCHANGED <<options, fs, locals, debug_level_, dirs, spawned, procResult,
                 copyIO, toolAlive>>

\* CheckDatabase with the return statement of line 148 forgotten
CheckDatabase_NoReturn ==
  /\ pc = "InChecked"
  /\ pc' = "DatabaseChecked"
  /\ log' = IF getStringOption_("database") = "" THEN Append(log, MsgNoDatabase) ELSE log
  /\ UNCHANGED <<options, fs, locals, result, debug_level_, dirs, spawned,
                 procResult, copyIO, toolAlive>>

\* lines 145-149: check "database"
CheckDatabase ==
  /\ pc = "InChecked"
  /\ IF getStringOption_("database") = ""
     THEN Fail(MsgNoDatabase, ILLEGAL_PARAMETERS)
     ELSE /\ pc' = "DatabaseChecked"
          /\ UNCHANGED <<log, result>>
  /\ UNCHANGED <<options, fs, locals, debug_level_, dirs, spawned, procResult,
                 copyIO, toolAlive>>

\* lines 151-155: check "out"
CheckOut ==
  /\ pc = "DatabaseChecked"
  /\ IF getStringOption_("out") = ""
     THEN Fail(MsgNoOut, ILLEGAL_PARAMETERS)
     ELSE /\ pc' = "Validated"
          /\ UNCHANGED <<log, result>>
  /\ UNCHANGED <<options, fs, locals, debug_level_, dirs, spawned, procResult,
                 copyIO, toolAlive>>

\* ResolveExecutable with the temporary directory of line 174 acquired
\* before the check of line 161
ResolveExecutable_DirFirst ==
  /\ pc = "Validated"
  /\ \E d \in TempDirNames \ dirsOnDisk :
       /\ dirsOnDisk' = dirsOnDisk \cup {d}
       /\ dirsCreated' = dirsCreated \cup {d}
       /\ dirsAutoRemove' = dirsAutoRemove \cup {d}
  /\ IF getStringOption_("executable") = ""
     THEN /\ Fail(MsgNoExecutable, MISSING_PARAMETERS)
          /\ executable' = ""
     ELSE /\ executable' = canonicalFilePath(getStringOption_("executable"), exeOnDisk)
          /\ pc' = "ExecutableResolved"
          /\ UNCHANGED <<log, result>>
  /\ UNCHANGED <<options, fs, tmp_dir, arguments, exit_code, debug_level_,
                 spawned, procResult, copyIO, toolAlive>>

\* lines 160-169: read "executable", fail if it is empty, else replace it by
\* its canonical path (the result of which is not looked at)
ResolveExecutable ==
  /\ pc = "Validated"
  /\ IF getStringOption_("executable") = ""
     THEN /\ Fail(MsgNoExecutable, MISSING_PARAMETERS)
          /\ executable' = ""
     ELSE /\ executable' = canonicalFilePath(getStringOption_("executable"), exeOnDisk)
          /\ pc' = "ExecutableResolved"
          /\ UNCHANGED <<log, result>>
  /\ UNCHANGED <<options, fs, tmp_dir, arguments, exit_code, debug_level_, dirs,
                 spawned, procResult, copyIO, toolAlive>>

\* TOPPBase::makeAutoRemoveTempDirectory_: creates directory d and registers
\* it for removal when the tool ends
makeAutoRemoveTempDirectory_(d) ==
  /\ dirsOnDisk' = dirsOnDisk \cup {d}
  /\ dirsCreated' = dirsCreated \cup {d}
  /\ dirsAutoRemove' = dirsAutoRemove \cup {d}

\* AcquireWorkDir with the two option pairs appended in the other order
AcquireWorkDir_DbFirst ==
  /\ pc = "ExecutableResolved"
  /\ \E d \in TempDirNames \ dirsOnDisk :
       /\ makeAutoRemoveTempDirectory_(d)
       /\ tmp_dir' = d
       /\ arguments' = <<in, "--db-path", getStringOption_("database"), "-o", d>>
  /\ pc' = "WorkDirAcquired"
  /\ UNCHANGED <<options, fs, executable, exit_code, result, log, debug_level_,
                 spawned, procResult, copyIO, toolAlive>>

\* AcquireWorkDir with a directory that is created but not registered for
\* automatic removal
AcquireWorkDir_NotRegistered ==
  /\ pc = "ExecutableResolved"
  /\ \E d \in TempDirNames \ dirsOnDisk :
       /\ dirsOnDisk' = dirsOnDisk \cup {d}
       /\ dirsCreated' = dirsCreated \cup {d}
       /\ dirsAutoRemove' = dirsAutoRemove
       /\ tmp_dir' = d
       /\ arguments' = <<in, "-o", d, "--db-path", getStringOption_("database")>>
  /\ pc' = "WorkDirAcquired"
  /\ UNCHANGED <<options, fs, executable, exit_code, result, log, debug_level_,
                 spawned, procResult, copyIO, toolAlive>>

\* lines 174-182: acquire the temporary directory, build the argument list
AcquireWorkDir ==
  /\ pc = "ExecutableResolved"
  /\ \E d \in TempDirNames \ dirsOnDisk :
       /\ makeAutoRemoveTempDirectory_(d)
       /\ tmp_dir' = d
       /\ arguments' = <<in, "-o", d, "--db-path", getStringOption_("database")>>
  /\ pc' = "WorkDirAcquired"
  /\ UNCHANGED <<options, fs, executable, exit_code, result, log, debug_level_,
                 spawned, procResult, copyIO, toolAlive>>

\* what the external program can do when started as "program args": a
\* program that cannot be started (empty path) fails and writes nothing;
\* any other run ends with some status and leaves some state of the file
\* significant_matches.tsv in the directory given after "-o"
ProcessOutcomes(program) ==
  IF program = ""
  THEN [code : ExitCodes \ {EXECUTION_OK}, file : {ABSENT}]
  ELSE [code : ExitCodes, file : FileStates]

\* the file the external program writes, from its own argument vector
ProcessResultPath(args) == args[3] \o ResultFileName

\* RunProcess with every failure reported as EXTERNAL_PROGRAM_ERROR
RunProcess_Remapped ==
  /\ pc = "WorkDirAcquired"
  /\ debug_level_' = 100
  /\ spawned' = Append(spawned, [program |-> executable, args |-> arguments])
  /\ \E o \in ProcessOutcomes(executable) :
       /\ exit_code' = o.code
       /\ procResult' = o.file
       /\ fs' = [fs EXCEPT ![ProcessResultPath(arguments)] = o.file]
       /\ IF o.code # EXECUTION_OK
          THEN /\ result' = EXTERNAL_PROGRAM_ERROR
               /\ pc' = "Failed"
          ELSE /\ pc' = "ProcessRun"
               /\ UNCHANGED result
  /\ UNCHANGED <<options, executable, tmp_dir, arguments, log, dirs, copyIO,
                 toolAlive>>

\* RunProcess with the remove(out) of line 200 done before the status check
RunProcess_RemoveFirst ==
  /\ pc = "WorkDirAcquired"
  /\ debug_level_' = 100
  /\ spawned' = Append(spawned, [program |-> executable, args |-> arguments])
  /\ \E o \in ProcessOutcomes(executable) :
       /\ exit_code' = o.code
       /\ procResult' = o.file
       /\ fs' = [RemoveFile(fs, out, TRUE) EXCEPT ![ProcessResultPath(arguments)] = o.file]
       /\ IF o.code # EXECUTION_OK
          THEN /\ result' = o.code
               /\ pc' = "Failed"
          ELSE /\ pc' = "ProcessRun"
               /\ UNCHANGED result
  /\ UNCHANGED <<options, executable, tmp_dir, arguments, log, dirs, copyIO,
                 toolAlive>>

\* lines 188-194: raise the debug level, run the external program once and
\* return its status if it is not EXECUTION_OK
RunProcess ==
  /\ pc = "WorkDirAcquired"
  /\ debug_level_' = 100
  /\ spawned' = Append(spawned, [program |-> executable, args |-> arguments])
  /\ \E o \in ProcessOutcomes(executable) :
       /\ exit_code' = o.code
       /\ procResult' = o.file
       /\ fs' = [fs EXCEPT ![ProcessResultPath(arguments)] = o.file]
       /\ IF o.code # EXECUTION_OK
          THEN /\ result' = o.code
               /\ pc' = "Failed"
          ELSE /\ pc' = "ProcessRun"
               /\ UNCHANGED result
  /\ UNCHANGED <<options, executable, tmp_dir, arguments, log, dirs, copyIO,
                 toolAlive>>

\* lines 200-207: remove the file at out, then copy the result file to it
CopyResult ==
  /\ pc = "ProcessRun"
  /\ \E io \in CopyIOs :
       /\ copyIO' = io
       /\ fs' = IF out # ""
                THEN CopyFile(RemoveFile(fs, out, io.removeOk), tmp_out(tmp_dir), out, io)
                ELSE RemoveFile(fs, out, io.removeOk)
  /\ pc' = "ResultCopied"
  /\ UNCHANGED <<options, locals, result, log, debug_level_, dirs, spawned,
                 procResult, toolAlive>>

\* lines 209-211: log the success line and return EXECUTION_OK
ReportSuccess ==
  /\ pc = "ResultCopied"
  /\ log' = Append(log, MsgFine \o out)
  /\ result' = EXECUTION_OK
  /\ pc' = "Done"
  /\ UNCHANGED <<options, fs, locals, debug_level_, dirs, spawned, procResult,
                 copyIO, toolAlive>>

\* the end of the tool object: every directory registered for automatic
\* removal is deleted together with its files
removeTempDirectories_(f) ==
  [p \in DOMAIN f |->
     IF \E d \in dirsAutoRemove : p = tmp_out(d) THEN ABSENT ELSE f[p]]

\* lines 217-221: main() returns what main_ returned; the tool object is
\* destroyed
Exit ==
  /\ pc \in {"Done", "Failed"}
  /\ toolAlive
  /\ toolAlive' = FALSE
  /\ dirsOnDisk' = dirsOnDisk \ dirsAutoRemove
  /\ fs' = removeTempDirectories_(fs)
  /\ UNCHANGED <<options, pc, locals, result, log, debug_level_, dirsCreated,
                 dirsAutoRemove, spawned, procResult, copyIO>>

Next ==
  \/ CheckIn
  \/ CheckDatabase
  \/ CheckOut
  \/ ResolveExecutable
  \/ AcquireWorkDir
  \/ RunProcess
  \/ CopyResult
  \/ ReportSuccess
  \/ Exit

Spec == Init /\ [][Next]_vars

\* the steps of one invocation are taken as long as one is possible: main_
\* is straight-line code and the call of the external program returns
FairSpec == Spec /\ WF_vars(Next)

\* ---------------------------------------------------------------- claims
AnyEmpty == in = "" \/ database = "" \/ out = ""
Returned == pc \in {"Done", "Failed"}
ProcessFailed == exit_code \notin {NONE, EXECUTION_OK}
ProcessSucceeded == exit_code = EXECUTION_OK
Unresolved == executableOpt = "" \/ canonicalFilePath(executableOpt, exeOnDisk) = ""
NoSideEffect == dirsCreated = {} /\ dirsOnDisk = {} /\ spawned = <<>> /\ fs = fs0

\* C1: if in, database or out is empty, main_ returns ILLEGAL_PARAMETERS and
\* nothing has happened: no temporary directory, no process, the file
\* system as it was.
C1_MissingOptionFailsFast ==
  AnyEmpty => /\ NoSideEffect
              /\ Returned => result = ILLEGAL_PARAMETERS

C1_Witness ==
  /\ Returned /\ in # "" /\ database = "" /\ out # ""
  /\ fs0[out].exists
  /\ result = ILLEGAL_PARAMETERS

\* C2 (as claimed): with in, database and out given, an executable that
\* cannot be resolved (empty option, or no file to canonicalize) makes main_
\* return MISSING_PARAMETERS with no temporary directory and no process.
C2_UnresolvedExecutableFailsFirst ==
  (~AnyEmpty /\ Unresolved) =>
     /\ dirsCreated = {}
     /\ spawned = <<>>
     /\ Returned => result = MISSING_PARAMETERS

\* C3: every argument vector handed to the external process is
\* [in, "-o", tmp_dir, "--db-path", database], with tmp_dir the directory
\* this invocation created.
C3_ArgumentVector ==
  \A i \in 1..Len(spawned) :
    /\ spawned[i].args = <<in, "-o", tmp_dir, "--db-path", database>>
    /\ in # "" /\ database # ""
    /\ dirsCreated = {tmp_dir}

C3_Witness ==
  /\ Len(spawned) = 1
  /\ spawned[1].args[1] = "sample.mzML"
  /\ spawned[1].args[5] = "/db/nrps"

\* C4: a non-success status of the external process is what main_ returns,
\* and the process was run exactly once.
C4_StatusPropagated ==
  (Returned /\ ProcessFailed) => /\ result = exit_code
                                 /\ Len(spawned) = 1

C4_Witness ==
  Returned /\ exit_code = UNKNOWN_ERROR /\ result = UNKNOWN_ERROR

\* C5: after a non-success status of the external process the file at out
\* is what it was before the invocation (present with the same content, or
\* absent).
C5_OutUntouchedOnFailure ==
  (ProcessFailed /\ out # "") => fs[out] = fs0[out]

C5_Witness ==
  /\ Returned /\ ProcessFailed /\ out # ""
  /\ fs0[out].exists /\ fs0[out].data # <<>>
  /\ procResult.exists

\* C6 (as claimed): when the process succeeded, wrote significant_matches.tsv
\* and main_ returns EXECUTION_OK, the file at out holds exactly the content
\* of that result file.
C6_OutIsResultOnSuccess ==
  (pc = "Done" /\ result = EXECUTION_OK /\ procResult.exists) =>
     fs[out] = procResult

\* C7 (as claimed): when the process succeeded but wrote no
\* significant_matches.tsv, main_ does not return EXECUTION_OK.
C7_MissingResultIsAnError ==
  (Returned /\ ProcessSucceeded /\ ~procResult.exists) => result # EXECUTION_OK

CopyFailed ==
  /\ pc \in {"ResultCopied", "Done"}
  /\ procResult.exists
  /\ \/ ~copyIO.srcOpen
     \/ ~copyIO.dstOpen
     \/ copyIO.written < Len(procResult.data)

\* C9 (as claimed): when the copy of the result file fails with an I/O
\* error, main_ does not return EXECUTION_OK.
C9_CopyErrorSurfaced ==
  (Returned /\ CopyFailed) => result # EXECUTION_OK

\* position in the chain of steps
Rank(p) ==
  CASE p = "Start" -> 0
    [] p = "InChecked" -> 1
    [] p = "DatabaseChecked" -> 2
    [] p = "Validated" -> 3
    [] p = "ExecutableResolved" -> 4
    [] p = "WorkDirAcquired" -> 5
    [] p = "ProcessRun" -> 6
    [] p = "ResultCopied" -> 7
    [] p = "Done" -> 8
    [] p = "Failed" -> 8

\* the log line of the first check that fails, in the order of the code
FirstFailure ==
  IF in = "" THEN MsgNoIn
  ELSE IF database = "" THEN MsgNoDatabase
  ELSE IF out = "" THEN MsgNoOut
  ELSE MsgNoExecutable

C10_StateOrder ==
  /\ (dirsCreated # {} \/ spawned # <<>> \/ fs # fs0)
        => /\ ~AnyEmpty /\ executableOpt # ""
           /\ Rank(pc) >= 5
  /\ (Returned /\ (AnyEmpty \/ executableOpt = ""))
        => /\ log = <<FirstFailure>>
           /\ result = IF AnyEmpty THEN ILLEGAL_PARAMETERS ELSE MISSING_PARAMETERS
  /\ Len(spawned) <= 1 /\ Cardinality(dirsCreated) <= 1 /\ Len(log) <= 1
  /\ pc = "Done" => result = EXECUTION_OK /\ ProcessSucceeded /\ Len(spawned) = 1
  /\ pc = "Failed" => result \in ExitCodes \ {EXECUTION_OK}
  /\ Returned <=> result # NONE

C10_StepOrder ==
  /\ pc' # pc => /\ Rank(pc') \in {Rank(pc) + 1, 8}
                 /\ pc' = "Done" => pc = "ResultCopied"
  /\ Returned => pc' = pc /\ result' = result

\* C10: the steps are taken in the order of the chain, each at most once; the
\* checks of in, database, out, executable come in that order and before any
\* side effect; the invocation ends in exactly one of Done and Failed, and in
\* Done only after the external process succeeded.
C10_ChainOnce ==
  /\ []C10_StateOrder
  /\ [][C10_StepOrder]_vars
  /\ <>Returned

C10_Witness ==
  /\ pc = "Done" /\ ~toolAlive
  /\ Len(spawned) = 1 /\ log = <<MsgFine \o out>>

TypeOK ==
  /\ pc \in {"Start", "InChecked", "DatabaseChecked", "Validated",
             "ExecutableResolved", "WorkDirAcquired", "ProcessRun",
             "ResultCopied", "Done", "Failed"}
  /\ result \in ExitCodes \cup {NONE}
  /\ fs \in [FsPaths -> FileStates]
  /\ dirsOnDisk \subseteq TempDirNames
====
